---- MODULE Spec2Model ----
(***************************************************************************)
(* Client-side message reconciliation of the chat reference application:   *)
(* the Conversation View Model (useMessagesWrapped), the Feed Compositor   *)
(* (useMessages) and the chat context guard (useChat), together with the   *)
(* part of the real-time backend they talk to (message store, page query,  *)
(* event broadcast, listener registry).                                    *)
(***************************************************************************)
EXTENDS Integers, Sequences, FiniteSets, TLC

(* ---------------------------- bounds ----------------------------------- *)
\* page loads one hook instance may start (mount + channel/username changes)
MaxLoads == 2
\* calls of the exposed actions (send/edit/delete/addReaction/removeReaction)
MaxCalls == 1
\* bot script entries the Bot Feed Generator may reveal
MaxBot == 1
\* GET requests the token endpoint answers
MaxRequests == 3

(* ---------------------------- constants -------------------------------- *)
\* query({ limit: 200, ... })
limit == 200

None == "none"
\* null / undefined where an id or a timestamp is expected (ids start at 1)
Null == 0
\* ChatContext without a chat object
NoChat == "nochat"

Channels == {"general", "bots"}

\* names are sequences of characters, so that startsWith is computed
Ann == <<"a", "n", "n">>
Botha == <<"b", "o", "t", "h", "a">>
Usernames == {Ann, Botha}
\* session.username of a session that has none (undefined)
NoUsername == <<>>

\* clientId of the chat connection (the session's username): the backend
\* makes it the author of what this client sends
clientId == Ann

\* botConfig of @/config/bots
botConfig ==
  [usernamePrefix |-> <<"b", "o", "t">>, channelName |-> "bots"]

MessageEventNames == {"created", "edited", "deleted"}
ReactionEventNames == {"reactionCreated", "reactionDeleted"}
EventNames == MessageEventNames \cup ReactionEventNames

\* identity of a callback: the three message handlers are created once
\* (useCallback with no dependencies), the reaction handlers once per username
StableCb == <<"s">>
CbKeys == {StableCb} \cup Usernames
ListenerKeys ==
  (Channels \X MessageEventNames \X {StableCb})
    \cup (Channels \X ReactionEventNames \X Usernames)

(* ---------------------------- pure helpers ----------------------------- *)
RECURSIVE Reverse(_)
Reverse(s) == IF s = <<>> THEN <<>> ELSE Append(Reverse(Tail(s)), Head(s))

Take(s, n) == SubSeq(s, 1, IF Len(s) < n THEN Len(s) ELSE n)

HasId(s, id) == \E i \in 1..Len(s) : s[i].id = id

\* String.prototype.startsWith
startsWith(s, p) == Len(s) >= Len(p) /\ SubSeq(s, 1, Len(p)) = p

\* underscore uniq(list, ({ id }) => id): the first entry of each id is kept
RECURSIVE uniqFrom(_, _)
uniqFrom(s, acc) ==
  IF s = <<>> THEN acc
  ELSE uniqFrom(Tail(s),
                IF HasId(acc, Head(s).id) THEN acc ELSE Append(acc, Head(s)))

uniq(s) == uniqFrom(s, <<>>)

\* Array.prototype.filter over the message list
filterOutId(s, id) == SelectSeq(s, LAMBDA m : m.id # id)

\* a cursor taken from the first entry of the page
firstIdOrNull(page) == IF page = <<>> THEN Null ELSE page[1].id

\* nextMessages.at(-1)?.id ?? null
lastIdOrNull(page) == IF page = <<>> THEN Null ELSE page[Len(page)].id

(* ---------------------------- state ------------------------------------ *)
VARIABLES
  chat,          \* chat of ChatContext, as its conversationId; NoChat if absent
  error,         \* error thrown while rendering, None if none
  phase,         \* "initial", "mounted" or "unmounted" (one hook instance)
  username,      \* the username argument of useMessages
  messages,      \* useState<Message[]> of useMessagesWrapped
  isLoading,     \* useState(false) of useMessagesWrapped
  pageCursor,    \* useRef<string | null>
  nLoads,        \* runs of the load effect so far
  queries,       \* one record per initMessages() call, by load number
  backend,       \* the backend's messages of each conversation, oldest first
  nextId,        \* next message id / timestamp the backend hands out
  nextReaction,  \* next reaction id the backend hands out
  events,        \* events broadcast on each conversation, not yet delivered
  listeners,     \* registrations on conversation.messages, per key
  WITH_BOTS,     \* process.env.NEXT_PUBLIC_WITH_BOTS === "true"
  botMessages,   \* messages of useBots
  calls,         \* calls made so far on each owner: the Conversation View
                 \* Model ("user") and the Bot Feed Generator ("bot")
  registry,      \* kind of the SDK's listener registry
  tombstones,    \* ids whose deleted event handleDelete has been run for
  request,       \* the GET of the token endpoint being handled
  responses      \* what the token endpoint has answered, oldest first

vars ==
  <<chat, error, phase, username, messages, isLoading, pageCursor, nLoads,
    queries, backend, nextId, nextReaction, events, listeners, WITH_BOTS,
    botMessages, calls, registry, tombstones, request, responses>>

viewVars == <<messages, isLoading, pageCursor>>
backendVars == <<backend, nextId, nextReaction, events>>
tokenVars == <<request, responses>>

Owners == {"user", "bot"}

(* ---------------------------- backend ---------------------------------- *)
Message(id, c, u, t, d) ==
  [id |-> id, conversation_id |-> c, created_by |-> u, created_at |-> t,
   data |-> d, reactions |-> {}]

Reaction(id, mid, u) == [id |-> id, message_id |-> mid, created_by |-> u]

\* conversation.messages.query({ limit, direction: "backwards", startId }):
\* the newest `limit` messages, newest first, from startId on when given
pageOf(store, startId) ==
  LET newestFirst == Reverse(store)
      from == IF startId = Null THEN newestFirst
              ELSE SelectSeq(newestFirst, LAMBDA m : m.id <= startId)
  IN  Take(from, limit)

broadcast(ev, c, e) == [ev EXCEPT ![c] = Append(@, e)]

storeIndex(store, id) == CHOOSE i \in 1..Len(store) : store[i].id = id

\* what the backend holds when the view is constructed: two earlier messages
\* in "general", none in "bots"
history ==
  [c \in Channels |->
     IF c = "general"
     THEN <<Message(1, "general", Botha, 1, "hi"),
            Message(2, "general", Ann, 2, "hi")>>
     ELSE <<>>]

HistoryLen == Len(history["general"])

(* ---------------------------- listener registry ------------------------ *)
\* The registry behind conversation.messages is the SDK's.  Two kinds exist:
\* "multi" keeps one registration per subscribe call and unsubscribe drops
\* one of them; "single" keeps a callback at most once per event.  `registry`
\* says which kind the SDK in use is.

\* conversation.messages.subscribe(eventName, cb)
subscribe(reg, c, e, cb) ==
  [reg EXCEPT ![<<c, e, cb>>] = IF registry = "single" THEN 1 ELSE @ + 1]

\* conversation.messages.unsubscribe(eventName, cb)
unsubscribe(reg, c, e, cb) ==
  [reg EXCEPT ![<<c, e, cb>>] =
     IF registry = "single" \/ @ = 0 THEN 0 ELSE @ - 1]

\* useMessageEvent / useReactionEvent, render part: subscribe on every render
useMessageEvent(reg, c, e, cb) == subscribe(reg, c, e, cb)

\* useMessageEvent / useReactionEvent, effect cleanup: one unsubscribe
useMessageEventCleanup(reg, c, e, cb) == unsubscribe(reg, c, e, cb)

\* the five useMessageEvent / useReactionEvent calls of one render
renderSubscriptions(reg, c, u) ==
  LET r1 == useMessageEvent(reg, c, "created", StableCb)
      r2 == useMessageEvent(r1, c, "edited", StableCb)
      r3 == useMessageEvent(r2, c, "deleted", StableCb)
      r4 == useMessageEvent(r3, c, "reactionCreated", u)
  IN  useMessageEvent(r4, c, "reactionDeleted", u)

\* cleanups of the three useMessageEvent effects (conversation.messages or
\* the callback changed, or unmount)
cleanupMessageEvents(reg, c) ==
  LET r1 == useMessageEventCleanup(reg, c, "created", StableCb)
      r2 == useMessageEventCleanup(r1, c, "edited", StableCb)
  IN  useMessageEventCleanup(r2, c, "deleted", StableCb)

\* cleanups of the two useReactionEvent effects
cleanupReactionEvents(reg, c, u) ==
  LET r1 == useMessageEventCleanup(reg, c, "reactionCreated", u)
  IN  useMessageEventCleanup(r1, c, "reactionDeleted", u)

\* number of callbacks the registry invokes for an event e on conversation c
registered(reg, c, e) ==
  LET RECURSIVE sum(_)
      sum(S) == IF S = {} THEN 0
                ELSE LET k == CHOOSE x \in S : TRUE
                     IN  reg[<<c, e, k>>] + sum(S \ {k})
  IN  sum({cb \in CbKeys : <<c, e, cb>> \in ListenerKeys})

(* ---------------------------- chat context ------------------------------ *)
\* a useChat that falls back to a default conversation instead of throwing
useChatWithFallback(ctx) ==
  [threw |-> FALSE, chat |-> IF ctx = NoChat THEN "general" ELSE ctx]

\* useChat: const { chat } = useContext(ChatContext) ?? {};
\*          if (!chat) throw new Error("Chat is not setup"); return chat
useChat(ctx) ==
  IF ctx = NoChat THEN [threw |-> TRUE, error |-> "Chat is not setup"]
  ELSE [threw |-> FALSE, chat |-> ctx]

(* ---------------------------- event handlers --------------------------- *)
\* mapFromUpdate / mapFromDelete of @/lib/reaction
mapFromUpdate(m, reaction) ==
  IF m.id = reaction.message_id
  THEN [m EXCEPT !.reactions = @ \cup {reaction.id}]
  ELSE m

mapFromDelete(m, reaction) ==
  IF reaction.id \in m.reactions
  THEN [m EXCEPT !.reactions = @ \ {reaction.id}]
  ELSE m

\* a handleAdd that appends without duplicate suppression
handleAddPlainAppend(prevMessage, message) == Append(prevMessage, message)

\* a handleAdd that puts the new message in front
handleAddPrepend(prevMessage, message) == uniq(<<message>> \o prevMessage)

handleAdd(prevMessage, message) == uniq(Append(prevMessage, message))

\* a handleUpdate that moves the updated message to the end, inserting it
\* when it was absent
handleUpdateMoveToEnd(prevMessage, updated) ==
  Append(filterOutId(prevMessage, updated.id), updated)

handleUpdate(prevMessage, updated) ==
  [i \in 1..Len(prevMessage) |->
     IF prevMessage[i].id # updated.id THEN prevMessage[i] ELSE updated]

\* a handleDelete with the test inverted
handleDeleteInverted(prevMessage, message) ==
  SelectSeq(prevMessage, LAMBDA m : m.id = message.id)

handleDelete(prevMessage, message) == filterOutId(prevMessage, message.id)

handleReactionAdd(prevMessage, reaction) ==
  [i \in 1..Len(prevMessage) |-> mapFromUpdate(prevMessage[i], reaction)]

handleReactionDelete(prevMessage, reaction) ==
  [i \in 1..Len(prevMessage) |-> mapFromDelete(prevMessage[i], reaction)]

\* the callback subscribed for each event name (lines 160-164)
applyEvent(prev, e) ==
  CASE e.type = "created" -> handleAdd(prev, e.payload)
    [] e.type = "edited" -> handleUpdate(prev, e.payload)
    [] e.type = "deleted" -> handleDelete(prev, e.payload)
    [] e.type = "reactionCreated" -> handleReactionAdd(prev, e.payload)
    [] e.type = "reactionDeleted" -> handleReactionDelete(prev, e.payload)

\* the registry calls every registration of the event, one after the other
RECURSIVE applyTimes(_, _, _)
applyTimes(prev, e, n) ==
  IF n = 0 THEN prev ELSE applyTimes(applyEvent(prev, e), e, n - 1)

(* ---------------------------- feed compositor -------------------------- *)
\* a merge that puts the bot list first
FeedBotsFirst(user, bot, withBots) ==
  uniq((IF withBots THEN bot ELSE <<>>) \o user)

\* useMemo of useMessages: uniq(user.concat(WITH_BOTS ? bot : []), id)
Feed(user, bot, withBots) == uniq(user \o (IF withBots THEN bot ELSE <<>>))

feed == Feed(messages, botMessages, WITH_BOTS)

\* messages.find(({ id }) => id === messageId)
\* (a sequence holding the first match, empty for undefined)
find(list, messageId) ==
  Take(SelectSeq(list, LAMBDA m : m.id = messageId), 1)

\* routing of addReaction (lines 233-246)
addReactionOwner(message, withBots) ==
  IF withBots /\ message # <<>>
     /\ startsWith(message[1].created_by, botConfig.usernamePrefix)
  THEN "bot" ELSE "user"

\* routing of removeReaction (lines 248-258)
removeReactionOwner(message, withBots) ==
  IF withBots /\ message # <<>>
     /\ message[1].conversation_id = botConfig.channelName
  THEN "bot" ELSE "user"

\* botConversation.isLoading: the Bot Feed Generator has no loading phase
botIsLoading == FALSE

\* isLoading as useMessages returns it (line 265)
isLoadingExposed == isLoading \/ botIsLoading

\* userConversation?.messages?.[0]?.created_at, handed to useBots
anchor == IF messages = <<>> THEN Null ELSE messages[1].created_at

\* script entry k of the Bot Feed Generator, revealed at anchor + offset;
\* the first entry carries the id of the first real message
botEntry(k, a) ==
  Message(IF k = 1 THEN 1 ELSE 100 + k, botConfig.channelName,
          botConfig.usernamePrefix \o <<"1">>, a + k, "bot")

(* ---------------------------- load effect ------------------------------ *)
\* the promise of one initMessages() call: the conversation queried, the
\* `mounted` flag of its closure, the startId it sent, and how far it got
Query(c, startId) ==
  [conversation |-> c, mounted |-> TRUE, startId |-> startId,
   status |-> "pending", page |-> <<>>]

\* a cleanup that leaves the flag set
loadCleanupKeepsFlag(qs, n) == qs

\* cleanup of the load effect (lines 117-119): mounted = false
loadCleanup(qs, n) == [qs EXCEPT ![n].mounted = FALSE]

\* a load that sends the cursor stored by the load before it
startLoadWithStoredCursor(qs, n, c, cursor) ==
  [i \in 1..(n + 1) |-> IF i = n + 1 THEN Query(c, pageCursor) ELSE qs[i]]

\* initMessages() up to its await (lines 98-104): the query is sent with
\* the cursor as it is at the call
startLoad(qs, n, c, cursor) ==
  [i \in 1..(n + 1) |-> IF i = n + 1 THEN Query(c, cursor) ELSE qs[i]]

(* ---------------------------- token endpoint --------------------------- *)
\* no GET is being handled
Idle == [pc |-> "idle"]

\* what getSession(cookies()) may return: a session with or without username
Sessions == [username : Usernames \cup {NoUsername}]

\* the capability object of the GET handler (lines 11-13)
capability ==
  [ns \in {"conversations:*"} |-> {"publish", "subscribe", "presence"}]

\* tokenParams handed to createTokenRequest (lines 9-14); `!` asserts only
\* to the compiler, an undefined username is passed on as it is
tokenParams(session) ==
  [clientId |-> session.username, capability |-> capability]

\* ably.auth.createTokenRequest(tokenParams) of the SDK: a signed request
\* for the given clientId and capability.  For an undefined clientId the
\* SDK either signs a request without client identity or throws.
createTokenRequest(params) ==
  IF params.clientId # NoUsername
  THEN {[ok |-> TRUE, clientId |-> params.clientId,
         capability |-> params.capability]}
  ELSE {[ok |-> TRUE, clientId |-> NoUsername,
         capability |-> params.capability],
        [ok |-> FALSE]}

(* ---------------------------- Init ------------------------------------- *)
Init ==
  /\ chat \in {"general", NoChat}
  /\ error = None
  /\ phase = "initial"
  /\ username = Ann
  /\ messages = <<>>
  /\ isLoading = FALSE
  /\ pageCursor = Null
  /\ nLoads = 0
  /\ queries = <<>>
  /\ backend = history
  /\ nextId = HistoryLen + 1
  /\ nextReaction = 1
  /\ events = [c \in Channels |-> <<>>]
  /\ listeners = [k \in ListenerKeys |-> 0]
  /\ WITH_BOTS \in BOOLEAN
  /\ botMessages = <<>>
  /\ calls = [o \in Owners |-> 0]
  /\ registry \in {"multi", "single"}
  /\ tombstones = {}
  /\ request = Idle
  /\ responses = <<>>

(* ---------------------------- view lifecycle --------------------------- *)
\* First render of useMessages(username) and its effects.  useChat throws
\* when the context has no chat; otherwise the hook subscribes, the effects
\* reset the list, set isLoading, start the first load, and the state
\* changes cause a second render.
Mount ==
  /\ phase = "initial"
  /\ error = None
  /\ LET r == useChat(chat) IN
       IF r.threw
       THEN /\ error' = r.error
            /\ UNCHANGED <<phase, messages, isLoading, pageCursor, nLoads,
                           queries, listeners>>
       ELSE LET c == r.chat
                rendered == renderSubscriptions(listeners, c, username)
            IN  /\ phase' = "mounted"
                /\ messages' = <<>>
                /\ isLoading' = TRUE
                /\ pageCursor' = Null
                /\ queries' = startLoad(queries, nLoads, c, pageCursor')
                /\ nLoads' = nLoads + 1
                /\ listeners' = renderSubscriptions(rendered, c, username)
                /\ UNCHANGED error
  /\ UNCHANGED <<chat, username, backendVars, WITH_BOTS, botMessages,
                 calls, registry, tombstones, tokenVars>>

\* The chat's conversationId changes to c: render on the new conversation,
\* cleanups of the old one, then the two effects and the re-render.
ChangeChannel(c) ==
  /\ phase = "mounted"
  /\ c # chat
  /\ nLoads < MaxLoads
  /\ LET rendered == renderSubscriptions(listeners, c, username)
         cleaned == cleanupReactionEvents(
                      cleanupMessageEvents(rendered, chat), chat, username)
     IN  listeners' = renderSubscriptions(cleaned, c, username)
  /\ chat' = c
  /\ messages' = <<>>
  /\ isLoading' = TRUE
  /\ pageCursor' = Null
  /\ queries' = startLoad(loadCleanup(queries, nLoads), nLoads, c, pageCursor')
  /\ nLoads' = nLoads + 1
  /\ UNCHANGED <<error, phase, username, backendVars, WITH_BOTS, botMessages,
                 calls, registry, tombstones, tokenVars>>

\* The username argument changes to u: the reaction callbacks are new, the
\* load effect runs again; the list is kept.
ChangeUsername(u) ==
  /\ phase = "mounted"
  /\ u # username
  /\ nLoads < MaxLoads
  /\ LET rendered == renderSubscriptions(listeners, chat, u)
         cleaned == cleanupReactionEvents(rendered, chat, username)
     IN  listeners' = IF isLoading THEN cleaned
                      ELSE renderSubscriptions(cleaned, chat, u)
  /\ username' = u
  /\ isLoading' = TRUE
  /\ pageCursor' = Null
  /\ queries' = startLoad(loadCleanup(queries, nLoads), nLoads, chat,
                         pageCursor')
  /\ nLoads' = nLoads + 1
  /\ UNCHANGED <<chat, error, phase, messages, backendVars, WITH_BOTS,
                 botMessages, calls, registry, tombstones, tokenVars>>

\* The view unmounts: every effect's cleanup runs.
Unmount ==
  /\ phase = "mounted"
  /\ phase' = "unmounted"
  /\ queries' = loadCleanup(queries, nLoads)
  /\ listeners' = cleanupReactionEvents(
                    cleanupMessageEvents(listeners, chat), chat, username)
  /\ UNCHANGED <<chat, error, username, viewVars, nLoads, backendVars,
                 WITH_BOTS, botMessages, calls, registry,
                 tombstones, tokenVars>>

(* ---------------------------- page query ------------------------------- *)
\* The backend serves query q: the page is the store as it is now.
QueryServe(q) ==
  /\ q \in 1..nLoads
  /\ queries[q].status = "pending"
  /\ queries' = [queries EXCEPT
       ![q].status = "served",
       ![q].page = pageOf(backend[queries[q].conversation],
                          queries[q].startId)]
  /\ UNCHANGED <<chat, error, phase, username, viewVars, nLoads, backendVars,
                 listeners, WITH_BOTS, botMessages, calls, registry,
                 tombstones, tokenVars>>

\* a continuation that leaves the loading flag set
applyPageKeepsLoading(q, prev) ==
  IF q.mounted
  THEN [applied |-> TRUE, isLoading |-> TRUE,
        pageCursor |-> lastIdOrNull(q.page),
        messages |-> uniq(q.page \o prev)]
  ELSE [applied |-> FALSE]

\* what initMessages does with the page after the await (lines 105-111)
applyPage(q, prev) ==
  IF q.mounted
  THEN [applied |-> TRUE, isLoading |-> FALSE,
        pageCursor |-> lastIdOrNull(q.page),
        messages |-> uniq(q.page \o prev)]
  ELSE [applied |-> FALSE]

\* The promise of query q resolves and initMessages continues.
QueryResolve(q) ==
  /\ q \in 1..nLoads
  /\ queries[q].status = "served"
  /\ LET r == applyPage(queries[q], messages) IN
       IF r.applied
       THEN /\ isLoading' = r.isLoading
            /\ pageCursor' = r.pageCursor
            /\ messages' = r.messages
            /\ listeners' = renderSubscriptions(listeners, chat, username)
            /\ queries' = [queries EXCEPT ![q].status = "applied"]
       ELSE /\ queries' = [queries EXCEPT ![q].status = "discarded",
                                          ![q].page = <<>>]
            /\ UNCHANGED <<viewVars, listeners>>
  /\ UNCHANGED <<chat, error, phase, username, nLoads, backendVars, WITH_BOTS,
                 botMessages, calls, registry, tombstones, tokenVars>>

\* The backend rejects query q: the await throws inside initMessages, whose
\* promise nobody handles; nothing after the await runs.
QueryReject(q) ==
  /\ q \in 1..nLoads
  /\ queries[q].status = "pending"
  /\ queries' = [queries EXCEPT ![q].status = "rejected"]
  /\ UNCHANGED <<chat, error, phase, username, viewVars, nLoads, backendVars,
                 listeners, WITH_BOTS, botMessages, calls, registry,
                 tombstones, tokenVars>>

(* ---------------------------- event delivery --------------------------- *)
\* The oldest undelivered event of conversation c reaches the client: every
\* callback registered for it on c runs.  The callbacks set the state of the
\* hook instance, which re-renders; after unmount setState does nothing.
DeliverEvent(c) ==
  /\ events[c] # <<>>
  /\ events' = [events EXCEPT ![c] = Tail(@)]
  /\ LET e == Head(events[c])
         n == registered(listeners, c, e.type)
     IN  IF phase = "mounted" /\ n > 0
         THEN /\ messages' = applyTimes(messages, e, n)
              /\ listeners' = renderSubscriptions(listeners, chat, username)
              /\ tombstones' = IF e.type = "deleted"
                               THEN tombstones \cup {e.payload.id}
                               ELSE tombstones
         ELSE UNCHANGED <<messages, listeners, tombstones>>
  /\ UNCHANGED <<chat, error, phase, username, isLoading, pageCursor, nLoads,
                 queries, backend, nextId, nextReaction, WITH_BOTS,
                 botMessages, calls, registry, tokenVars>>

(* ---------------------------- exposed actions -------------------------- *)
\* a call that also switches the loading indicator on
afterCallWithSpinner(view) == [view EXCEPT !.isLoading = TRUE]

\* What a call of sendMessage / editMessage / deleteMessage / addReaction /
\* removeReaction of useMessagesWrapped does to the hook's own state: the
\* callbacks only call conversation.messages.* (lines 166-199)
afterCall(view) == view

viewState ==
  [messages |-> messages, isLoading |-> isLoading, pageCursor |-> pageCursor]

ViewAfterCall ==
  LET v == afterCall(viewState)
  IN  /\ messages' = v.messages
      /\ isLoading' = v.isLoading
      /\ pageCursor' = v.pageCursor

Call(owner) == calls' = [calls EXCEPT ![owner] = @ + 1]

CanCall == phase = "mounted" /\ calls["user"] + calls["bot"] < MaxCalls

feedIds == {feed[i].id : i \in 1..Len(feed)}

\* the ids and reaction ids a caller can name
MessageIds == (1..(HistoryLen + MaxCalls)) \cup {100 + k : k \in 1..MaxBot}
ReactionIds == 1..MaxCalls

\* backend side of conversation.messages.addReaction(messageId, type)
backendAddReaction(messageId) ==
  IF HasId(backend[chat], messageId)
  THEN LET r == Reaction(nextReaction, messageId, clientId)
           i == storeIndex(backend[chat], messageId)
       IN  /\ backend' = [backend EXCEPT ![chat][i].reactions = @ \cup {r.id}]
           /\ events' = broadcast(events, chat,
                                  [type |-> "reactionCreated", payload |-> r])
           /\ nextReaction' = nextReaction + 1
  ELSE UNCHANGED <<backend, events, nextReaction>>

\* backend side of conversation.messages.removeReaction(reactionId)
backendRemoveReaction(reactionId) ==
  LET store == backend[chat]
      holders == {i \in 1..Len(store) : reactionId \in store[i].reactions}
  IN  IF holders # {}
      THEN LET i == CHOOSE j \in holders : TRUE
               r == Reaction(reactionId, store[i].id, clientId)
           IN  /\ backend' = [backend EXCEPT
                                ![chat][i].reactions = @ \ {reactionId}]
               /\ events' = broadcast(events, chat,
                              [type |-> "reactionDeleted", payload |-> r])
      ELSE UNCHANGED <<backend, events>>

sendMessage ==
  /\ CanCall
  /\ LET m == Message(nextId, chat, clientId, nextId, "hi")
     IN  /\ backend' = [backend EXCEPT ![chat] = Append(@, m)]
         /\ events' = broadcast(events, chat,
                                [type |-> "created", payload |-> m])
  /\ nextId' = nextId + 1
  /\ ViewAfterCall
  /\ Call("user")
  /\ UNCHANGED <<chat, error, phase, username, nLoads, queries, nextReaction,
                 listeners, WITH_BOTS, botMessages, registry,
                 tombstones, tokenVars>>

editMessage(messageId) ==
  /\ CanCall
  /\ messageId \in feedIds
  /\ IF HasId(backend[chat], messageId)
     THEN LET i == storeIndex(backend[chat], messageId)
              updated == [backend[chat][i] EXCEPT !.data = "ed"]
          IN  /\ backend' = [backend EXCEPT ![chat][i] = updated]
              /\ events' = broadcast(events, chat,
                                     [type |-> "edited", payload |-> updated])
     ELSE UNCHANGED <<backend, events>>
  /\ ViewAfterCall
  /\ Call("user")
  /\ UNCHANGED <<chat, error, phase, username, nLoads, queries, nextId,
                 nextReaction, listeners, WITH_BOTS, botMessages, registry,
                 tombstones, tokenVars>>

deleteMessage(messageId) ==
  /\ CanCall
  /\ messageId \in feedIds
  /\ IF HasId(backend[chat], messageId)
     THEN LET i == storeIndex(backend[chat], messageId)
          IN  /\ backend' = [backend EXCEPT
                               ![chat] = filterOutId(@, messageId)]
              /\ events' = broadcast(events, chat,
                             [type |-> "deleted", payload |-> backend[chat][i]])
     ELSE UNCHANGED <<backend, events>>
  /\ ViewAfterCall
  /\ Call("user")
  /\ UNCHANGED <<chat, error, phase, username, nLoads, queries, nextId,
                 nextReaction, listeners, WITH_BOTS, botMessages, registry,
                 tombstones, tokenVars>>

\* addReaction of useMessages: route by the author of the target message
addReaction(messageId) ==
  /\ CanCall
  /\ messageId \in feedIds
  /\ LET owner == addReactionOwner(find(feed, messageId), WITH_BOTS) IN
       /\ Call(owner)
       /\ IF owner = "bot"
          THEN /\ botMessages' =
                    handleReactionAdd(botMessages,
                      Reaction(nextReaction, messageId, clientId))
               /\ listeners' = renderSubscriptions(listeners, chat, username)
               /\ nextReaction' = nextReaction + 1
               /\ UNCHANGED <<backend, events>>
          ELSE /\ backendAddReaction(messageId)
               /\ UNCHANGED <<botMessages, listeners>>
  /\ ViewAfterCall
  /\ UNCHANGED <<chat, error, phase, username, nLoads, queries, nextId,
                 WITH_BOTS, registry, tombstones, tokenVars>>

\* removeReaction of useMessages: route by the conversation of the target
removeReaction(messageId, reactionId) ==
  /\ CanCall
  /\ messageId \in feedIds
  /\ LET owner == removeReactionOwner(find(feed, messageId), WITH_BOTS) IN
       /\ Call(owner)
       /\ IF owner = "bot"
          THEN /\ botMessages' =
                    handleReactionDelete(botMessages,
                      Reaction(reactionId, messageId, clientId))
               /\ listeners' = renderSubscriptions(listeners, chat, username)
               /\ UNCHANGED <<backend, events>>
          ELSE /\ backendRemoveReaction(reactionId)
               /\ UNCHANGED <<botMessages, listeners>>
  /\ ViewAfterCall
  /\ UNCHANGED <<chat, error, phase, username, nLoads, queries, nextId,
                 nextReaction, WITH_BOTS, registry, tombstones, tokenVars>>

(* ---------------------------- bot feed --------------------------------- *)
\* useBots reveals its next script entry once it has an anchor; its state
\* change renders useMessages again.
BotReveal ==
  /\ phase = "mounted"
  /\ WITH_BOTS
  /\ anchor # Null
  /\ Len(botMessages) < MaxBot
  /\ botMessages' = Append(botMessages,
                           botEntry(Len(botMessages) + 1, anchor))
  /\ listeners' = renderSubscriptions(listeners, chat, username)
  /\ UNCHANGED <<chat, error, phase, username, viewVars, nLoads, queries,
                 backendVars, WITH_BOTS, calls, registry,
                 tombstones, tokenVars>>

(* ---------------------------- token endpoint GET ----------------------- *)
viewModelVars ==
  <<chat, error, phase, username, messages, isLoading, pageCursor, nLoads,
    queries, backend, nextId, nextReaction, events, listeners, WITH_BOTS,
    botMessages, calls, registry, tombstones>>

\* GET, up to the second await: the session is read (line 7)
GET(session) ==
  /\ request = Idle
  /\ Len(responses) < MaxRequests
  /\ request' = [pc |-> "createTokenRequest", session |-> session]
  /\ UNCHANGED <<responses, viewModelVars>>

\* the await of line 9 settles: the token request, or the SDK's error
GETCreateTokenRequest ==
  /\ request.pc = "createTokenRequest"
  /\ \E t \in createTokenRequest(tokenParams(request.session)) :
       request' = [pc |-> "respond", session |-> request.session, token |-> t]
  /\ UNCHANGED <<responses, viewModelVars>>

\* line 16: Response.json(token); an error thrown in the handler is answered
\* by the framework with a failure and no token
GETRespond ==
  /\ request.pc = "respond"
  /\ responses' = Append(responses,
       IF request.token.ok
       THEN [session |-> request.session, status |-> "ok",
             token |-> request.token]
       ELSE [session |-> request.session, status |-> "failure"])
  /\ request' = Idle
  /\ UNCHANGED viewModelVars

TokenNext ==
  \/ \E session \in Sessions : GET(session)
  \/ GETCreateTokenRequest
  \/ GETRespond

TokenSpec == Init /\ [][TokenNext]_vars

(* ---------------------------- specification ---------------------------- *)
Next ==
  \/ Mount
  \/ \E c \in Channels : ChangeChannel(c)
  \/ \E u \in Usernames : ChangeUsername(u)
  \/ Unmount
  \/ \E q \in 1..MaxLoads : QueryServe(q)
  \/ \E q \in 1..MaxLoads : QueryResolve(q)
  \/ \E q \in 1..MaxLoads : QueryReject(q)
  \/ \E c \in Channels : DeliverEvent(c)
  \/ sendMessage
  \/ \E id \in MessageIds : editMessage(id)
  \/ \E id \in MessageIds : deleteMessage(id)
  \/ \E id \in MessageIds : addReaction(id)
  \/ \E id \in MessageIds : \E r \in ReactionIds : removeReaction(id, r)
  \/ BotReveal

Spec == Init /\ [][Next]_vars

\* The backend answers every query it has not rejected, and the
\* continuation of an answered query runs.
FairSpec ==
  /\ Init
  /\ [][Next]_vars
  /\ WF_vars(\E q \in 1..MaxLoads : QueryServe(q))
  /\ WF_vars(\E q \in 1..MaxLoads : QueryResolve(q))

(* ======================================================================= *)
(* Claims                                                                  *)
(* ======================================================================= *)
NoDuplicateIds(s) == \A i, j \in 1..Len(s) : s[i].id = s[j].id => i = j

InFlight(q) == q \in 1..nLoads /\ queries[q].status \in {"pending", "served"}

\* query q is settled by this step
Settles(q) ==
  /\ InFlight(q)
  /\ queries'[q].status \in {"applied", "discarded", "rejected"}

\* query q was issued by a load that is no longer the live one: a later
\* load was started (channel or username changed) or the view unmounted
Superseded(q) == q < nLoads \/ phase = "unmounted"

\* C1: a page query that settles after the channel or the username changed,
\* or after the view unmounted, changes neither the message list, nor the
\* cursor, nor isLoading, and is never the one whose result is applied.
C1_StaleQueryMutatesNothing ==
  [][\A q \in 1..MaxLoads :
       (InFlight(q) /\ Superseded(q) /\ Settles(q))
         => (UNCHANGED viewVars /\ queries'[q].status # "applied")]_vars

\* C1 witness: a superseded query has resolved (its page was dropped) while
\* the view is still mounted with a later load
C1_Witness ==
  /\ phase = "mounted"
  /\ \E q \in 1..nLoads : q < nLoads /\ queries[q].status = "discarded"

\* C2: after the live page query was rejected the loading indicator is
\* cleared (isLoading is false).
C2_RejectedLoadClearsLoading ==
  (phase = "mounted" /\ queries[nLoads].status = "rejected") => ~isLoading

\* C3: neither the view model's list nor the merged feed ever holds two
\* entries with the same id.
C3_UniqueIds == NoDuplicateIds(messages) /\ NoDuplicateIds(feed)

\* C3 witness: a message sent while the load was in flight came both in the
\* applied page and as a created event, delivered to more than one
\* registration, and a bot entry shares an id with a real message
C3_Witness ==
  /\ phase = "mounted"
  /\ registry = "multi"
  /\ queries[nLoads].status = "applied"
  /\ HasId(queries[nLoads].page, 3)
  /\ events[chat] = <<>>
  /\ HasId(messages, 3)
  /\ \E j \in 1..Len(botMessages) : HasId(messages, botMessages[j].id)
  /\ WITH_BOTS

\* C4: with bots enabled, an id carried by both the real list and the bot
\* list has exactly one entry in the merged feed, and it is the real one.
C4_RealWinsOnCollision ==
  WITH_BOTS =>
    \A i \in 1..Len(messages) : \A j \in 1..Len(botMessages) :
      messages[i].id = botMessages[j].id =>
        /\ Cardinality({k \in 1..Len(feed) : feed[k].id = messages[i].id}) = 1
        /\ \E k \in 1..Len(feed) : feed[k] = messages[i]

\* C4 witness: the two lists share an id and the two entries differ
C4_Witness ==
  /\ WITH_BOTS
  /\ \E i \in 1..Len(messages) : \E j \in 1..Len(botMessages) :
       /\ messages[i].id = botMessages[j].id
       /\ messages[i] # botMessages[j]

\* C5: once the view has unmounted or moved to another conversation, no
\* listener is registered on a conversation the view is not showing.
C5_NoListenerLeftBehind ==
  \A k \in ListenerKeys :
    (phase = "unmounted" \/ (phase = "mounted" /\ k[1] # chat))
      => listeners[k] = 0

\* C6: the merged feed is always in non-decreasing created_at order.
C6_FeedChronological ==
  \A i, j \in 1..Len(feed) : i < j => feed[i].created_at <= feed[j].created_at

\* the provenance rule of the claim: a message is the bots' when bots are
\* enabled and its author's name starts with the bot username prefix
ProvenanceOwner(messageId) ==
  LET message == find(feed, messageId)
  IN  IF WITH_BOTS /\ message # <<>>
         /\ startsWith(message[1].created_by, botConfig.usernamePrefix)
      THEN "bot" ELSE "user"

\* C7: addReaction and removeReaction on a message of the feed both go to
\* the owner given by the author's provenance: the call is counted on the
\* Bot Feed Generator for a bot-authored message when bots are enabled, on
\* the Conversation View Model otherwise.
C7_ReactionsRoutedByAuthor ==
  [][\A id \in MessageIds :
       (addReaction(id) \/ \E r \in ReactionIds : removeReaction(id, r))
         => calls'[ProvenanceOwner(id)] = calls[ProvenanceOwner(id)] + 1]_vars

\* every query has settled, every broadcast event was delivered, the live
\* load was applied, and no listener is registered on another conversation
Quiescent ==
  /\ phase = "mounted"
  /\ \A q \in 1..nLoads : ~InFlight(q)
  /\ queries[nLoads].status = "applied"
  /\ \A c \in Channels : events[c] = <<>>
  /\ \A k \in ListenerKeys : k[1] # chat => listeners[k] = 0

Bodies(s) == {<<s[i].id, s[i].data>> : i \in 1..Len(s)}

\* C8: once every in-flight query and event has been delivered, the list
\* holds exactly the backend's messages of the conversation (all of them fit
\* one page), each with the body of its latest edit.
C8_EventuallyConsistent ==
  Quiescent => Bodies(messages) = Bodies(backend[chat])

\* C9: a call forwarded to the Conversation View Model (sendMessage,
\* editMessage, deleteMessage, addReaction, removeReaction) leaves the
\* message list, the cursor and isLoading as they were.
C9_CallsOnlyForward ==
  [][calls'["user"] # calls["user"] => UNCHANGED viewVars]_vars

\* C9 witness: a call was forwarded while the list was loaded, and its event
\* is still on its way
C9_Witness ==
  /\ calls["user"] > 0
  /\ messages # <<>>
  /\ events[chat] # <<>>

\* C10: without a chat in the context, useChat fails with "Chat is not
\* setup" and nothing of the view model exists: the hook is not mounted, no
\* query was issued and no listener is registered; no other error occurs.
C10_NoChatNoViewModel ==
  /\ chat = NoChat =>
       /\ phase = "initial"
       /\ nLoads = 0 /\ queries = <<>>
       /\ \A k \in ListenerKeys : listeners[k] = 0
       /\ error \in {None, "Chat is not setup"}
  /\ error # None => (chat = NoChat /\ error = "Chat is not setup")

\* C10 witness: the first render was attempted without a chat and threw
C10_Witness == chat = NoChat /\ error = "Chat is not setup"

\* C11: a message whose deleted event has been applied is not in the list,
\* in whatever order later pages and events arrive.
C11_DeletedStaysOut == \A id \in tombstones : ~HasId(messages, id)

\* the step delivers an event of the given type on conversation c to at
\* least one callback of the mounted view
Applies(c, type) ==
  /\ DeliverEvent(c)
  /\ Head(events[c]).type = type
  /\ phase = "mounted"
  /\ registered(listeners, c, type) > 0

C13_EditedReplacesInPlace ==
  [][\A c \in Channels :
       Applies(c, "edited") =>
         LET updated == Head(events[c]).payload
         IN  /\ Len(messages') = Len(messages)
             /\ \A i \in 1..Len(messages) :
                  messages'[i] = IF messages[i].id = updated.id
                                 THEN updated ELSE messages[i]
             /\ ~HasId(messages, updated.id) => messages' = messages]_vars

\* C13 witness: an entry of a list of several messages carries an edit
C13_Witness ==
  /\ phase = "mounted"
  /\ Len(messages) >= 2
  /\ \E i \in 1..Len(messages) : messages[i].data = "ed"
  /\ events[chat] = <<>>

\* C14: a deleted event removes exactly the entry with the deleted
\* message's id; the other entries remain in their relative order; without
\* such an entry the list is unchanged.
C14_DeletedRemovesOne ==
  [][\A c \in Channels :
       Applies(c, "deleted") =>
         LET id == Head(events[c]).payload.id
             kept == {i \in 1..Len(messages) : messages[i].id # id}
         IN  /\ ~HasId(messages', id)
             /\ Len(messages') = Cardinality(kept)
             /\ \A i \in kept :
                  messages'[Cardinality({j \in kept : j <= i})] = messages[i]
             /\ ~HasId(messages, id) => messages' = messages]_vars

\* C14 witness: a deleted event took its message out of a list that keeps
\* another one
C14_Witness ==
  /\ phase = "mounted"
  /\ messages # <<>>
  /\ \E id \in tombstones : ~HasId(messages, id)

\* C15: when a live query resolves with a non-empty page, every fetched
\* message is in the list, no entry with an id outside the page is dropped,
\* and the cursor is the id of the page's message with the smallest
\* created_at; with an empty page the list is unchanged and the cursor null.
C15_PageMergedCursorOldest ==
  [][\A q \in 1..MaxLoads :
       (QueryResolve(q) /\ queries[q].mounted) =>
         LET page == queries[q].page
         IN  IF page # <<>>
             THEN /\ \A i \in 1..Len(page) :
                       \E j \in 1..Len(messages') : messages'[j] = page[i]
                  /\ \A i \in 1..Len(messages) :
                       ~HasId(page, messages[i].id) =>
                         \E j \in 1..Len(messages') :
                           messages'[j] = messages[i]
                  /\ \E i \in 1..Len(page) :
                       /\ pageCursor' = page[i].id
                       /\ \A j \in 1..Len(page) :
                            page[i].created_at <= page[j].created_at
             ELSE messages' = messages /\ pageCursor' = Null]_vars

\* C15 witness: the live load was applied with a page of several messages,
\* the cursor is the oldest one's id, and the list also holds a message
\* that was not in the page
C15_Witness ==
  /\ phase = "mounted"
  /\ queries[nLoads].status = "applied"
  /\ Len(queries[nLoads].page) >= 2
  /\ pageCursor = 1
  /\ \E i \in 1..Len(messages) : ~HasId(queries[nLoads].page, messages[i].id)

\* C16: a channel change resets the list to empty and the cursor to null
\* in the step that issues the new query, and the list of the mounted view
\* never holds a message of a conversation other than the current one.
C16_PreviousChannelDiscarded ==
  [][/\ chat' # chat => (messages' = <<>> /\ pageCursor' = Null)
     /\ phase' = "mounted" =>
          \A i \in 1..Len(messages') : messages'[i].conversation_id = chat'
    ]_vars

\* C18: with a non-empty real list the anchor handed to the Bot Feed
\* Generator is the smallest created_at of the list; with an empty list
\* there is no anchor.
C18_AnchorIsEarliest ==
  IF messages = <<>> THEN anchor = Null
  ELSE \A i \in 1..Len(messages) : anchor <= messages[i].created_at

\* C19: every page query is sent without a startId.
C19_NoStartIdEverSent == \A q \in 1..nLoads : queries[q].startId = Null

\* C19 witness: a load stored a cursor and a later load was started
C19_Witness ==
  /\ nLoads >= 2
  /\ queries[1].status = "applied"
  /\ lastIdOrNull(queries[1].page) # Null
  /\ queries[2].startId = Null

\* C17: while the live query of the mounted view is in flight isLoading is
\* true, whatever superseded queries do meanwhile, and once the live query
\* has resolved it is false; if the view stays mounted and no query is
\* rejected, isLoading is eventually false for good.
C17_IsLoadingTracksLiveQuery ==
  /\ [](phase = "mounted" =>
         /\ InFlight(nLoads) => isLoadingExposed
         /\ queries[nLoads].status = "applied" => ~isLoadingExposed)
  /\ <>[](/\ phase = "mounted"
          /\ \A q \in 1..nLoads : queries[q].status # "rejected")
       => <>[](~isLoadingExposed)

\* C17 witness: a superseded query has resolved while the live one is still
\* in flight and isLoading is true
C17_Witness ==
  /\ phase = "mounted"
  /\ nLoads = 2
  /\ queries[1].status = "discarded"
  /\ InFlight(2)
  /\ isLoadingExposed

\* C20: every answer of the token endpoint to a GET whose session has a
\* username is a token request with that username as clientId and exactly
\* publish, subscribe and presence on conversations:*; every answer to a
\* GET whose session has no username is a failure without a token.
C20_TokenOnlyWithUsername ==
  \A i \in 1..Len(responses) :
    LET r == responses[i]
    IN  IF r.session.username # NoUsername
        THEN /\ r.status = "ok"
             /\ r.token.clientId = r.session.username
             /\ DOMAIN r.token.capability = {"conversations:*"}
             /\ r.token.capability["conversations:*"] =
                  {"publish", "subscribe", "presence"}
        ELSE r.status = "failure"

====
